---- MODULE Spec2Model ----
(***************************************************************************)
(* Model of the OpenAPI validator/converter of api/docs:                   *)
(*   validate_openapi.py      validate_openapi_structure, find_refs,       *)
(*                            count_elements, main                         *)
(*   generate_openapi_json.py main (the unvalidated generator)             *)
(*                                                                         *)
(* A Python str is a finite sequence of atoms.  An atom is one character   *)
(* ("3", ".", "/", "#", ...) or a word of letters that never stands next   *)
(* to another word, so str.startswith is the prefix relation on atom       *)
(* sequences, str.split("/") cuts at the "/" atoms and `a in s` for a word *)
(* a is membership of the atom.                                            *)
(*                                                                         *)
(* A document node, as yaml.safe_load builds it, is a record               *)
(*   [t, s, kv]   t  in {"map","seq","str","num","bool","null"}            *)
(*                s  the atoms of a scalar (its text)                      *)
(*                kv the entries [k, v] of a dict in insertion order, or   *)
(*                   the items of a list (k = "")                          *)
(***************************************************************************)
EXTENDS Integers, Sequences, FiniteSets, TLC

VARIABLES
    pc,          \* position of main(): Start, Loaded, StructurallyValid, ...
    yaml_file,   \* openapi.yaml: "missing", "malformed" or a document
    json_file,   \* openapi.json: its text (a sequence of atoms) or Absent
    json_before, \* openapi.json as it was when the run started
    json_io,     \* what main() did to openapi.json: untouched, opened, written
    spec,        \* main(): the loaded document
    errors,      \* main(): the validation report
    counts,      \* main(): the statistics of count_elements
    exit_code,   \* exit status of the process, -1 while it runs
    outcomes,    \* <<terminal state, exit status>> of the runs so far
    runs,        \* number of runs started
    tpc,         \* position of a direct caller of the functions
    doc,         \* the document a direct caller holds
    edits,       \* the edits the caller made to doc since it was drawn
    result,      \* what validate_openapi_structure gave for doc
    base_result, \* what it gave for doc before any edit
    refs_found   \* the list find_refs filled

pipeVars == <<pc, yaml_file, json_file, json_before, json_io, spec, errors,
              counts, exit_code, outcomes, runs>>
callVars == <<tpc, doc, edits, result, base_result, refs_found>>
vars == <<pc, yaml_file, json_file, json_before, json_io, spec, errors,
          counts, exit_code, outcomes, runs,
          tpc, doc, edits, result, base_result, refs_found>>

----------------------------------------------------------------------------
(* Document nodes *)

Str(s) == [t |-> "str", s |-> s, kv |-> <<>>]
Num(s) == [t |-> "num", s |-> s, kv |-> <<>>]
Bool(s) == [t |-> "bool", s |-> s, kv |-> <<>>]
Null == [t |-> "null", s |-> <<"null">>, kv |-> <<>>]
Map(entries) == [t |-> "map", s |-> <<>>, kv |-> entries]
List(items) ==
    [t |-> "seq", s |-> <<>>,
     kv |-> [i \in 1..Len(items) |-> [k |-> "", v |-> items[i]]]]
E(key, value) == [k |-> key, v |-> value]

IsDict(obj) == obj.t = "map"
IsList(obj) == obj.t = "seq"
IsStr(obj) == obj.t = "str"

Keys(obj) == {obj.kv[i].k : i \in 1..Len(obj.kv)}
Get(obj, key) == obj.kv[CHOOSE i \in 1..Len(obj.kv) : obj.kv[i].k = key].v

(* str.startswith(prefix) *)
startswith(s, prefix) ==
    /\ Len(s) >= Len(prefix)
    /\ SubSeq(s, 1, Len(prefix)) = prefix

(* str.split("/")[-1]: the atoms after the last "/" *)
LastSegment(s) ==
    LET cuts == {i \in 1..Len(s) : s[i] = "/"}
        from == IF cuts = {} THEN 0
                ELSE CHOOSE i \in cuts : \A j \in cuts : j <= i
    IN  SubSeq(s, from + 1, Len(s))

SchemaPrefix == <<"#", "/", "components", "/", "schemas", "/">>
ParamPrefix == <<"#", "/", "components", "/", "parameters", "/">>

----------------------------------------------------------------------------
(* find_refs(obj, refs, path): the list refs after the call.  The path      *)
(* argument only builds a string no one reads and is left out.              *)

RECURSIVE find_refs(_, _)
RECURSIVE find_refs_from(_, _, _)

find_refs_from(obj, i, refs) ==
    IF i > Len(obj.kv) THEN refs
    ELSE LET key == obj.kv[i].k
             value == obj.kv[i].v
         IN  IF IsDict(obj) /\ key = "$ref" /\ IsStr(value)
             THEN find_refs_from(obj, i + 1, Append(refs, value.s))
             ELSE find_refs_from(obj, i + 1, find_refs(value, refs))

(* find_refs as it would be without the branch for lists *)
find_refs_DictsOnly(obj, refs) ==
    IF IsDict(obj) THEN find_refs_from(obj, 1, refs) ELSE refs

find_refs(obj, refs) ==
    IF IsDict(obj) \/ IsList(obj) THEN find_refs_from(obj, 1, refs)
    ELSE refs

----------------------------------------------------------------------------
(* The occurrences of a reference in a tree, told without the walk: the     *)
(* positions of the tree are index paths, a reference sits at every         *)
(* position that is a dict entry "$ref" holding a str, and depth-first      *)
(* order is the lexicographic order of the positions.                       *)

RECURSIVE Positions(_)
Positions(node) ==
    {<<>>} \cup UNION {{<<i>> \o p : p \in Positions(node.kv[i].v)} :
                       i \in 1..Len(node.kv)}

RECURSIVE NodeAt(_, _)
NodeAt(node, p) ==
    IF p = <<>> THEN node ELSE NodeAt(node.kv[Head(p)].v, Tail(p))

Parent(p) == SubSeq(p, 1, Len(p) - 1)

IsRefPosition(tree, p) ==
    /\ p # <<>>
    /\ IsDict(NodeAt(tree, Parent(p)))
    /\ NodeAt(tree, Parent(p)).kv[p[Len(p)]].k = "$ref"
    /\ IsStr(NodeAt(tree, p))

RefPositions(tree) == {p \in Positions(tree) : IsRefPosition(tree, p)}

LexLess(p, q) ==
    \E i \in 1..(Len(q)) :
        /\ i - 1 <= Len(p)
        /\ SubSeq(p, 1, i - 1) = SubSeq(q, 1, i - 1)
        /\ \/ Len(p) = i - 1
           \/ Len(p) >= i /\ p[i] < q[i]

RefsInOrder(tree) ==
    LET S == RefPositions(tree)
        rank(p) == Cardinality({q \in S : LexLess(q, p)}) + 1
    IN  [i \in 1..Cardinality(S) |->
            NodeAt(tree, CHOOSE p \in S : rank(p) = i).s]

Occurrences(tree, ref) ==
    Cardinality({p \in RefPositions(tree) : NodeAt(tree, p).s = ref})

----------------------------------------------------------------------------
(* validate_openapi_structure(spec).  The value is [raised, errors]: raised *)
(* is "" when the function returned the list errors, and otherwise the      *)
(* exception that left it.                                                  *)

Returned(errs) == [raised |-> "", errors |-> errs]
Raised(exc) == [raised |-> exc, errors |-> <<>>]

(* `key in obj` for a str key: "yes", "no", or "raise" (TypeError: argument *)
(* of type ... is not iterable).  A dict looks among its keys, a list among *)
(* its items, a str among its substrings.                                   *)
In(key, obj) ==
    CASE IsDict(obj) -> IF key \in Keys(obj) THEN "yes" ELSE "no"
      [] IsList(obj) ->
            IF \E i \in 1..Len(obj.kv) : obj.kv[i].v = Str(<<key>>)
            THEN "yes" ELSE "no"
      [] IsStr(obj) ->
            IF \E i \in 1..Len(obj.s) : obj.s[i] = key THEN "yes" ELSE "no"
      [] OTHER -> "raise"

(* obj[key] for a str key raises TypeError unless obj is a dict *)
CanIndex(obj) == IsDict(obj)

MissingField(field) == <<"Missing required field: ", field>>
InvalidVersion(value) ==
    <<"Invalid OpenAPI version: ">> \o value \o <<" (expected 3.x)">>
UndefinedSchema(ref) == <<"Undefined schema reference: ">> \o ref
UndefinedParameter(ref) == <<"Undefined parameter reference: ">> \o ref

(* lines 21-24 *)
check_openapi(spec_, r) ==
    IF r.raised # "" THEN r
    ELSE CASE In("openapi", spec_) = "raise" -> Raised("TypeError")
           [] In("openapi", spec_) = "no" ->
                 Returned(Append(r.errors, MissingField("openapi")))
           [] OTHER ->
                 IF ~CanIndex(spec_) THEN Raised("TypeError")
                 ELSE LET v == Get(spec_, "openapi")
                      IN  IF ~IsStr(v) THEN Raised("AttributeError")
                          ELSE IF ~startswith(v.s, <<"3", ".">>)
                          THEN Returned(Append(r.errors, InvalidVersion(v.s)))
                          ELSE r

(* lines 30-33, the else branch of `if "info" not in spec` *)
check_info_fields(info, r) ==
    IF In("title", info) = "raise" THEN Raised("TypeError")
    ELSE LET e1 == IF In("title", info) = "no"
                   THEN Append(r.errors, MissingField("info.title"))
                   ELSE r.errors
             e2 == IF In("version", info) = "no"
                   THEN Append(e1, MissingField("info.version"))
                   ELSE e1
         IN  Returned(e2)

(* lines 26-33 *)
check_info(spec_, r) ==
    IF r.raised # "" THEN r
    ELSE CASE In("info", spec_) = "raise" -> Raised("TypeError")
           [] In("info", spec_) = "no" ->
                 Returned(Append(r.errors, MissingField("info")))
           [] OTHER ->
                 IF ~CanIndex(spec_) THEN Raised("TypeError")
                 ELSE check_info_fields(Get(spec_, "info"), r)

(* check_paths as it would be if a failed check ended the validation *)
check_paths_ShortCircuit(spec_, r) ==
    IF r.raised # "" \/ r.errors # <<>> THEN r
    ELSE CASE In("paths", spec_) = "raise" -> Raised("TypeError")
           [] In("paths", spec_) = "no" ->
                 Returned(Append(r.errors, MissingField("paths")))
           [] OTHER -> r

(* lines 35-36 *)
check_paths(spec_, r) ==
    IF r.raised # "" THEN r
    ELSE CASE In("paths", spec_) = "raise" -> Raised("TypeError")
           [] In("paths", spec_) = "no" ->
                 Returned(Append(r.errors, MissingField("paths")))
           [] OTHER -> r

(* lines 45-50: set(components[category].keys()) where the category is      *)
(* present, set() where it is not; "raise" names the exception otherwise    *)
defined_names(components, category) ==
    CASE In(category, components) = "raise" ->
            [raised |-> "TypeError", names |-> {}]
      [] In(category, components) = "no" -> [raised |-> "", names |-> {}]
      [] OTHER ->
            IF ~CanIndex(components)
            THEN [raised |-> "TypeError", names |-> {}]
            ELSE IF ~IsDict(Get(components, category))
            THEN [raised |-> "AttributeError", names |-> {}]
            ELSE [raised |-> "",
                  names |-> {<<k>> : k \in Keys(Get(components, category))}]

(* resolve_ref as it would be if the whole reference, not its last segment, *)
(* were looked up                                                           *)
resolve_ref_WholeRef(ref, defined_schemas, defined_params) ==
    IF startswith(ref, SchemaPrefix)
    THEN IF ref \notin defined_schemas
         THEN <<UndefinedSchema(ref)>> ELSE <<>>
    ELSE IF startswith(ref, ParamPrefix)
    THEN IF ref \notin defined_params
         THEN <<UndefinedParameter(ref)>> ELSE <<>>
    ELSE <<>>

(* resolve_ref as it would be if every reference outside the parameters    *)
(* were taken for a schema reference                                        *)
resolve_ref_AnyCategory(ref, defined_schemas, defined_params) ==
    IF startswith(ref, ParamPrefix)
    THEN IF LastSegment(ref) \notin defined_params
         THEN <<UndefinedParameter(ref)>> ELSE <<>>
    ELSE IF LastSegment(ref) \notin defined_schemas
         THEN <<UndefinedSchema(ref)>> ELSE <<>>

(* lines 58-65: the errors of one collected reference *)
resolve_ref(ref, defined_schemas, defined_params) ==
    IF startswith(ref, SchemaPrefix)
    THEN IF LastSegment(ref) \notin defined_schemas
         THEN <<UndefinedSchema(ref)>> ELSE <<>>
    ELSE IF startswith(ref, ParamPrefix)
    THEN IF LastSegment(ref) \notin defined_params
         THEN <<UndefinedParameter(ref)>> ELSE <<>>
    ELSE <<>>

(* lines 57-65: the loop over refs_found *)
RECURSIVE resolve_refs(_, _, _, _)
resolve_refs(refs, defined_schemas, defined_params, errs) ==
    IF refs = <<>> THEN errs
    ELSE resolve_refs(Tail(refs), defined_schemas, defined_params,
                      errs \o resolve_ref(Head(refs), defined_schemas,
                                          defined_params))

(* lines 39-65 *)
check_components(spec_, r) ==
    IF r.raised # "" THEN r
    ELSE CASE In("components", spec_) = "raise" -> Raised("TypeError")
           [] In("components", spec_) = "no" -> r
           [] OTHER ->
              IF ~CanIndex(spec_) THEN Raised("TypeError")
              ELSE
              LET components == Get(spec_, "components")
                  schemas == defined_names(components, "schemas")
                  params == defined_names(components, "parameters")
                  security == defined_names(components, "securitySchemes")
              IN  IF schemas.raised # "" THEN Raised(schemas.raised)
                  ELSE IF params.raised # "" THEN Raised(params.raised)
                  ELSE IF security.raised # "" THEN Raised(security.raised)
                  ELSE IF In("paths", spec_) # "yes" THEN r
                  ELSE Returned(resolve_refs(
                           find_refs(Get(spec_, "paths"), <<>>),
                           schemas.names, params.names, r.errors))

(* lines 13-67 *)
validate_openapi_structure(spec_) ==
    check_components(spec_,
        check_paths(spec_,
            check_info(spec_,
                check_openapi(spec_, Returned(<<>>)))))

----------------------------------------------------------------------------
(* Strings and documents the checks draw from *)

V3 == <<"3", ".", "0", ".", "3">>
V2 == <<"2", ".", "0">>
SchemaRef(name) == SchemaPrefix \o <<name>>
ParamRef(name) == ParamPrefix \o <<name>>
ResponseRef(name) == <<"#", "/", "components", "/", "responses", "/", name>>
ExternalRef(name) ==
    <<"other.yaml#", "/", "components", "/", "schemas", "/", name>>
NoSlashRef == <<"#", "/", "components", "/", "schemas">>
NestedRef(outer, name) == SchemaPrefix \o <<outer, "/", name>>
SecurityRef(name) ==
    <<"#", "/", "components", "/", "securitySchemes", "/", name>>
HeaderRef(name) == <<"#", "/", "components", "/", "headers", "/", name>>

RefObject(ref) == Map(<<E("$ref", Str(ref))>>)

NotRun == [raised |-> "not run", errors |-> <<>>]
NoCounts ==
    [paths |-> 0, operations |-> 0, schemas |-> 0, parameters |-> 0, tags |-> 0]
NoFile == [exists |-> FALSE, text |-> <<>>]
NoInput == [state |-> "missing", doc |-> Null]

(* Bounds *)
MaxDepth == 3
MaxRefs == 2
MaxRuns == 2

(* Trees for find_refs: scalars, empty containers, containers of one child  *)
(* of any depth below MaxDepth, containers of two shallow children.         *)
Leaves == {Str(SchemaRef("X")), Str(ParamRef("P")), Null}
WalkKeys == {"$ref", "a"}
Singles(S) ==
    {List(<<t>>) : t \in S} \cup {Map(<<E(k, t)>>) : k \in WalkKeys, t \in S}
Pairs(S) ==
    {List(<<t, u>>) : t \in S, u \in S}
    \cup {Map(<<E(k[1], t), E(k[2], u)>>) :
            k \in {<<"$ref", "a">>, <<"a", "$ref">>}, t \in S, u \in S}

RECURSIVE Trees(_)
Trees(d) ==
    IF d = 0 THEN Leaves
    ELSE Leaves \cup {Map(<<>>), List(<<>>)}
         \cup Singles(Trees(d - 1))
         \cup Pairs(IF d > 1 THEN Leaves \cup Singles(Leaves) ELSE Leaves)

----------------------------------------------------------------------------
(* A direct caller of find_refs: draws a tree, calls find_refs on it.       *)

PipeIdle ==
    /\ pc = "Idle"
    /\ yaml_file = NoInput
    /\ json_file = NoFile
    /\ json_before = NoFile
    /\ json_io = "untouched"
    /\ spec = Null
    /\ errors = NotRun
    /\ counts = NoCounts
    /\ exit_code = -1
    /\ outcomes = {}
    /\ runs = 0

InitWalk ==
    /\ PipeIdle
    /\ tpc = "drawn"
    /\ doc \in Trees(MaxDepth)
    /\ edits = {}
    /\ result = NotRun
    /\ base_result = NotRun
    /\ refs_found = <<>>

(* refs = []; find_refs(doc, refs) *)
CallFindRefs ==
    /\ tpc = "drawn"
    /\ refs_found' = find_refs(doc, <<>>)
    /\ tpc' = "walked"
    /\ UNCHANGED <<doc, edits, result, base_result>>
    /\ UNCHANGED pipeVars

NextWalk == CallFindRefs

SpecWalk == InitWalk /\ [][NextWalk]_vars

(* C10: for every finite tree, find_refs ends and the list it filled is     *)
(* exactly the str values under the key $ref anywhere in the tree, one per  *)
(* occurrence, in depth-first order; the siblings of a $ref entry and a     *)
(* non-str $ref value are walked too.                                       *)
C10_FindRefsCollectsAll ==
    tpc = "walked" => refs_found = RefsInOrder(doc)

(* a walked tree that holds two references three levels down inside a list, *)
(* collected in the order of the list                                       *)
C10_Witness ==
    /\ tpc = "walked"
    /\ refs_found = <<ParamRef("P"), SchemaRef("X")>>
    /\ IsList(doc)
    /\ \A p \in RefPositions(doc) : Len(p) >= 3

----------------------------------------------------------------------------
(* Documents for validate_openapi_structure *)

FullInfo ==
    Map(<<E("title", Str(<<"API">>)), E("version", Str(<<"1", ".", "0">>))>>)

(* a paths mapping with one operation whose parameters hold the objects *)
OnePath(objects) ==
    Map(<<E("/send", Map(<<E("post",
        Map(<<E("tags", List(<<Str(<<"Messages">>)>>)),
              E("parameters", List(objects))>>))>>))>>)

Schemas(names) ==
    <<E("schemas", Map([i \in 1..Len(names) |-> E(names[i], Map(<<>>))]))>>
Parameters(names) ==
    <<E("parameters", Map([i \in 1..Len(names) |-> E(names[i], Map(<<>>))]))>>

NonMapRoots ==
    {Null, Num(<<"4", "2">>), Str(<<"hello">>), Str(<<"openapi">>),
     List(<<>>), List(<<Str(<<"openapi">>)>>)}

OpenapiOpts ==
    {<<>>} \cup
    {<<E("openapi", v)>> :
        v \in {Str(V3), Str(V2), Num(<<"3", ".", "0">>), Bool(<<"true">>),
               Null, Map(<<>>), List(<<>>)}}

InfoOpts ==
    {<<>>} \cup
    {<<E("info", v)>> :
        v \in {FullInfo,
               Map(<<E("title", Str(<<"API">>))>>),
               Map(<<E("version", Str(<<"1", ".", "0">>))>>),
               Map(<<>>), Null,
               List(<<Str(<<"title">>), Str(<<"version">>)>>),
               Str(<<"title">>)}}

FieldPathsOpts ==
    {<<>>, <<E("paths", Map(<<>>))>>, <<E("paths", Null)>>,
     <<E("paths", OnePath(<<RefObject(SchemaRef("X"))>>))>>}

FieldComponentsOpts ==
    {<<>>, <<E("components", Map(Schemas(<<"X">>)))>>,
     <<E("components", Map(Schemas(<<>>)))>>}

FieldDocs ==
    NonMapRoots \cup
    {Map(o \o i \o p \o c) :
        o \in OpenapiOpts, i \in InfoOpts,
        p \in FieldPathsOpts, c \in FieldComponentsOpts}

Refs ==
    {SchemaRef("X"), SchemaRef("Y"), ParamRef("P"), ResponseRef("R"),
     NestedRef("Y", "X"), NoSlashRef}

RefLists == UNION {[1..n -> Refs] : n \in 0..MaxRefs}

RefPathsOpts ==
    {<<>>} \cup
    {<<E("paths", OnePath([i \in 1..Len(l) |-> RefObject(l[i])]))>> :
        l \in RefLists}

RefComponentsOpts ==
    {<<>>} \cup
    {<<E("components", v)>> :
        v \in {Map(<<>>),
               Map(Schemas(<<"X">>)),
               Map(Schemas(<<"Y", "X">>)),
               Map(Schemas(<<>>) \o Parameters(<<"P">>)),
               Map(<<E("schemas",
                        Map(<<E("X", RefObject(SchemaRef("Y")))>>))>>),
               Null,
               Map(<<E("schemas", List(<<>>))>>)}}

RefDocs ==
    {Map(<<E("openapi", Str(V3))>> \o i \o p \o c) :
        i \in {<<>>, <<E("info", FullInfo)>>},
        p \in RefPathsOpts, c \in RefComponentsOpts}

----------------------------------------------------------------------------
(* Edits a caller makes to a document between two validations *)

RemoveKey(obj, key) ==
    Map(SelectSeq(obj.kv, LAMBDA e : e.k # key))

SetKey(obj, key, value) ==
    IF key \in Keys(obj)
    THEN Map([i \in 1..Len(obj.kv) |->
                IF obj.kv[i].k = key THEN E(key, value) ELSE obj.kv[i]])
    ELSE Map(Append(obj.kv, E(key, value)))

GetOr(obj, key, default) ==
    IF key \in Keys(obj) THEN Get(obj, key) ELSE default

Fields == {"openapi", "info", "info.title", "info.version", "paths"}

WithoutField(d, f) ==
    CASE f = "info.title" ->
            IF "info" \in Keys(d)
            THEN SetKey(d, "info", RemoveKey(Get(d, "info"), "title"))
            ELSE d
      [] f = "info.version" ->
            IF "info" \in Keys(d)
            THEN SetKey(d, "info", RemoveKey(Get(d, "info"), "version"))
            ELSE d
      [] OTHER -> RemoveKey(d, f)

WithSchema(d, name) ==
    LET components == GetOr(d, "components", Map(<<>>))
        schemas == GetOr(components, "schemas", Map(<<>>))
    IN  SetKey(d, "components",
               SetKey(components, "schemas",
                      SetKey(schemas, name, Map(<<>>))))

(* references the resolver does not know, each under a path key of its own *)
ForeignRefs ==
    {[key |-> "/responses", ref |-> ResponseRef("X")],
     [key |-> "/headers", ref |-> HeaderRef("H")],
     [key |-> "/security", ref |-> SecurityRef("X")],
     [key |-> "/external", ref |-> ExternalRef("Y")],
     [key |-> "/malformed", ref |-> NoSlashRef]}

WithPathRef(d, f) ==
    SetKey(d, "paths", SetKey(Get(d, "paths"), f.key, RefObject(f.ref)))

CallerInit(docs) ==
    /\ PipeIdle
    /\ tpc = "drawn"
    /\ doc \in docs
    /\ edits = {}
    /\ result = NotRun
    /\ base_result = NotRun
    /\ refs_found = <<>>

(* errors = validate_openapi_structure(doc) *)
CallValidate ==
    /\ tpc \in {"drawn", "edited"}
    /\ result' = validate_openapi_structure(doc)
    /\ base_result' = IF tpc = "drawn" THEN result' ELSE base_result
    /\ tpc' = "validated"
    /\ UNCHANGED <<doc, edits, refs_found>>
    /\ UNCHANGED pipeVars

(* the caller removes one of the required fields from a document that       *)
(* validated without errors                                                 *)
RemoveField(f) ==
    /\ tpc \in {"validated", "edited"}
    /\ base_result = Returned(<<>>)
    /\ IsDict(doc)
    /\ (f \in {"info.title", "info.version"} /\ "info" \in Keys(doc)) =>
          IsDict(Get(doc, "info"))
    /\ <<"remove", f>> \notin edits
    /\ doc' = WithoutField(doc, f)
    /\ edits' = edits \cup {<<"remove", f>>}
    /\ result' = NotRun
    /\ tpc' = "edited"
    /\ UNCHANGED <<base_result, refs_found>>
    /\ UNCHANGED pipeVars

(* the caller declares a schema under components.schemas *)
AddSchema(name) ==
    /\ tpc = "validated"
    /\ edits = {}
    /\ IsDict(doc)
    /\ IsDict(GetOr(doc, "components", Map(<<>>)))
    /\ IsDict(GetOr(GetOr(doc, "components", Map(<<>>)), "schemas", Map(<<>>)))
    /\ name \notin Keys(GetOr(GetOr(doc, "components", Map(<<>>)),
                              "schemas", Map(<<>>)))
    /\ doc' = WithSchema(doc, name)
    /\ edits' = {<<"add_schema", name>>}
    /\ result' = NotRun
    /\ tpc' = "edited"
    /\ UNCHANGED <<base_result, refs_found>>
    /\ UNCHANGED pipeVars

(* the caller adds, under paths, a reference into a category the resolver   *)
(* does not check                                                           *)
AddForeignRef(f) ==
    /\ tpc = "validated"
    /\ edits = {}
    /\ IsDict(doc)
    /\ "paths" \in Keys(doc)
    /\ IsDict(Get(doc, "paths"))
    /\ doc' = WithPathRef(doc, f)
    /\ edits' = {<<"add_ref", f.key>>}
    /\ result' = NotRun
    /\ tpc' = "edited"
    /\ UNCHANGED <<base_result, refs_found>>
    /\ UNCHANGED pipeVars

InitFields == CallerInit(FieldDocs)
NextFields == CallValidate \/ \E f \in Fields : RemoveField(f)
SpecFields == InitFields /\ [][NextFields]_vars

InitRefs == CallerInit(RefDocs)
NextRefs ==
    \/ CallValidate
    \/ \E name \in {"X", "Y"} : AddSchema(name)
    \/ \E f \in ForeignRefs : AddForeignRef(f)
SpecRefs == InitRefs /\ [][NextRefs]_vars

----------------------------------------------------------------------------
(* Claims about validate_openapi_structure *)

Count(seq, x) == Cardinality({i \in 1..Len(seq) : seq[i] = x})

Removed == {f \in Fields : <<"remove", f>> \in edits}

(* info.title and info.version are looked for only inside a present info *)
Reported ==
    IF "info" \in Removed THEN Removed \ {"info.title", "info.version"}
    ELSE Removed

(* C3, as claimed: from a document with an empty report, removing any      *)
(* non-empty subset of {openapi, info, info.title, info.version, paths}    *)
(* adds exactly one error per removed field, whatever else was removed.    *)
C3_OneErrorPerRemovedField ==
    (tpc = "validated" /\ base_result = Returned(<<>>) /\ Removed # {}) =>
        /\ result.raised = ""
        /\ Len(result.errors) = Cardinality(Removed)
        /\ \A f \in Removed : Count(result.errors, MissingField(f)) = 1

(* C3, amended: from a document with an empty report, removing any         *)
(* non-empty subset of the five fields adds exactly one error per removed  *)
(* field, naming it, except that info.title and info.version add no error  *)
(* of their own once info itself is removed.                               *)
C3_OneErrorPerReportedField ==
    (tpc = "validated" /\ base_result = Returned(<<>>) /\ Removed # {}) =>
        /\ result.raised = ""
        /\ Len(result.errors) = Cardinality(Reported)
        /\ \A f \in Reported : Count(result.errors, MissingField(f)) = 1

(* openapi, info.title and paths removed together: three errors *)
C3_Witness ==
    /\ tpc = "validated"
    /\ base_result = Returned(<<>>)
    /\ Removed = {"openapi", "info.title", "paths"}
    /\ Len(result.errors) = 3

IsVersionError(e) == startswith(e, <<"Invalid OpenAPI version: ">>)

(* C6: whenever the root holds the key openapi with a value that is not a  *)
(* str beginning with "3.", the report holds exactly one version-mismatch  *)
(* error embedding the value, and the info and paths checks still ran.     *)
C6_VersionMismatchReported ==
    (/\ tpc = "validated"
     /\ IsDict(doc)
     /\ "openapi" \in Keys(doc)
     /\ ~(IsStr(Get(doc, "openapi"))
          /\ startswith(Get(doc, "openapi").s, <<"3", ".">>))
     /\ "info" \in Keys(doc) => IsDict(Get(doc, "info"))) =>
        /\ result.raised = ""
        /\ Cardinality({i \in 1..Len(result.errors) :
                            IsVersionError(result.errors[i])}) = 1
        /\ Count(result.errors, InvalidVersion(Get(doc, "openapi").s)) = 1
        /\ "info" \notin Keys(doc) =>
              Count(result.errors, MissingField("info")) = 1
        /\ "paths" \notin Keys(doc) =>
              Count(result.errors, MissingField("paths")) = 1

SchemaKeys(d) ==
    IF /\ IsDict(d)
       /\ "components" \in Keys(d)
       /\ IsDict(Get(d, "components"))
       /\ "schemas" \in Keys(Get(d, "components"))
       /\ IsDict(Get(Get(d, "components"), "schemas"))
    THEN Keys(Get(Get(d, "components"), "schemas"))
    ELSE {}

SchemaErrors(r, name) == Count(r.errors, UndefinedSchema(SchemaRef(name)))

(* C4, as claimed: for every document holding a $ref #/components/schemas/X *)
(* with X no key of components.schemas the report holds exactly one         *)
(* "Undefined schema reference" error for X, and none once X is declared.   *)
C4_OneErrorPerDanglingSchema ==
    tpc = "validated" =>
        \A name \in {"X", "Y"} :
            /\ (Occurrences(doc, SchemaRef(name)) >= 1
                /\ name \notin SchemaKeys(doc)) =>
                    (result.raised = "" /\ SchemaErrors(result, name) = 1)
            /\ (name \in SchemaKeys(doc) /\ result.raised = "") =>
                    SchemaErrors(result, name) = 0

(* C4, amended: whenever validate_openapi_structure returns a report, it    *)
(* holds one "Undefined schema reference" error per occurrence under paths  *)
(* of a str $ref #/components/schemas/X with X no key of                    *)
(* components.schemas, provided the root has both components and paths,     *)
(* and no such error otherwise; so none once X is declared.                 *)
C4_OneErrorPerOccurrenceUnderPaths ==
    (tpc = "validated" /\ result.raised = "") =>
        \A name \in {"X", "Y"} :
            SchemaErrors(result, name) =
                IF /\ "components" \in Keys(doc)
                   /\ "paths" \in Keys(doc)
                   /\ name \notin SchemaKeys(doc)
                THEN Occurrences(Get(doc, "paths"), SchemaRef(name))
                ELSE 0

(* X dangled twice under paths, was declared, and its errors went away *)
C4_Witness ==
    /\ tpc = "validated"
    /\ edits = {<<"add_schema", "X">>}
    /\ SchemaErrors(base_result, "X") = 2
    /\ result.raised = ""
    /\ SchemaErrors(result, "X") = 0
    /\ Occurrences(Get(doc, "paths"), SchemaRef("X")) = 2

IsRefError(e) ==
    \/ startswith(e, <<"Undefined schema reference: ">>)
    \/ startswith(e, <<"Undefined parameter reference: ">>)

(* C5: every dangling-reference error of the report is about a collected    *)
(* reference that starts with #/components/schemas/ or                      *)
(* #/components/parameters/; a reference with another prefix adds no error  *)
(* and leaves the rest of the report as it was.                             *)
C5_OnlyKnownCategoriesReported ==
    tpc = "validated" =>
        /\ \A i \in 1..Len(result.errors) :
              IsRefError(result.errors[i]) =>
                  \E p \in RefPositions(Get(doc, "paths")) :
                      LET ref == NodeAt(Get(doc, "paths"), p).s
                      IN  \/ /\ startswith(ref, SchemaPrefix)
                             /\ result.errors[i] = UndefinedSchema(ref)
                          \/ /\ startswith(ref, ParamPrefix)
                             /\ result.errors[i] = UndefinedParameter(ref)
        /\ (\E f \in ForeignRefs : edits = {<<"add_ref", f.key>>}) =>
              result = base_result

(* a report with a dangling-reference error, validated again after a        *)
(* reference into components.responses was added under paths                *)
C5_Witness ==
    /\ tpc = "validated"
    /\ edits = {<<"add_ref", "/responses">>}
    /\ Occurrences(doc, ResponseRef("R")) = 1
    /\ \E i \in 1..Len(result.errors) : IsRefError(result.errors[i])
    /\ result.errors # <<>>

----------------------------------------------------------------------------
(* count_elements(spec): [raised, counts] *)

HttpMethods == {"get", "post", "put", "patch", "delete", "options", "head"}

(* str.lower() on the method names the documents use *)
Lower(method) ==
    CASE method = "GET" -> "get"
      [] method = "POST" -> "post"
      [] method = "Delete" -> "delete"
      [] OTHER -> method

(* len(obj): "raise" (TypeError) for what has no length *)
HasLen(obj) == IsDict(obj) \/ IsList(obj) \/ IsStr(obj)
PyLen(obj) == IF IsStr(obj) THEN Len(obj.s) ELSE Len(obj.kv)

(* lines 108-110: the tags one operation adds, or the TypeError of          *)
(* iterating a non-iterable or of adding an unhashable list or dict         *)
tags_of(operation) ==
    IF ~(IsDict(operation) /\ "tags" \in Keys(operation))
    THEN [raised |-> "", tags |-> {}]
    ELSE LET tags == Get(operation, "tags")
         IN  CASE IsList(tags) ->
                    IF \E i \in 1..Len(tags.kv) :
                          tags.kv[i].v.t \in {"map", "seq"}
                    THEN [raised |-> "TypeError", tags |-> {}]
                    ELSE [raised |-> "",
                          tags |-> {tags.kv[i].v : i \in 1..Len(tags.kv)}]
               [] IsDict(tags) ->
                    [raised |-> "", tags |-> {Str(<<k>>) : k \in Keys(tags)}]
               [] IsStr(tags) ->
                    [raised |-> "",
                     tags |-> {Str(<<tags.s[i]>>) : i \in 1..Len(tags.s)}]
               [] OTHER -> [raised |-> "TypeError", tags |-> {}]

(* lines 97-110: the loop over the methods of one path *)
RECURSIVE count_methods(_, _, _)
count_methods(methods, i, acc) ==
    IF acc.raised # "" \/ i > Len(methods.kv) THEN acc
    ELSE IF Lower(methods.kv[i].k) \notin HttpMethods
    THEN count_methods(methods, i + 1, acc)
    ELSE LET t == tags_of(methods.kv[i].v)
         IN  count_methods(methods, i + 1,
                [raised |-> t.raised,
                 operations |-> acc.operations + 1,
                 tags |-> acc.tags \cup t.tags])

(* lines 95-110: the loop over the paths *)
RECURSIVE count_paths(_, _, _)
count_paths(paths, i, acc) ==
    IF acc.raised # "" \/ i > Len(paths.kv) THEN acc
    ELSE IF IsDict(paths.kv[i].v)
    THEN count_paths(paths, i + 1, count_methods(paths.kv[i].v, 1, acc))
    ELSE count_paths(paths, i + 1, acc)

(* lines 113-116: len(spec["components"][category]) where present *)
component_count(spec_, category) ==
    IF In("components", spec_) # "yes" THEN [raised |-> "", n |-> 0]
    ELSE LET components == Get(spec_, "components")
         IN  CASE In(category, components) = "raise" ->
                    [raised |-> "TypeError", n |-> 0]
               [] In(category, components) = "no" -> [raised |-> "", n |-> 0]
               [] OTHER ->
                    IF ~CanIndex(components) \/ ~HasLen(Get(components, category))
                    THEN [raised |-> "TypeError", n |-> 0]
                    ELSE [raised |-> "", n |-> PyLen(Get(components, category))]

(* lines 83-119; spec is a dict here, validation let nothing else through *)
count_elements(spec_) ==
    LET walked ==
            IF "paths" \notin Keys(spec_)
            THEN [raised |-> "", operations |-> 0, tags |-> {}]
            ELSE IF ~HasLen(Get(spec_, "paths"))
            THEN [raised |-> "TypeError", operations |-> 0, tags |-> {}]
            ELSE IF ~IsDict(Get(spec_, "paths"))
            THEN [raised |-> "AttributeError", operations |-> 0, tags |-> {}]
            ELSE count_paths(Get(spec_, "paths"), 1,
                             [raised |-> "", operations |-> 0, tags |-> {}])
        schemas == component_count(spec_, "schemas")
        parameters == component_count(spec_, "parameters")
        raised == IF walked.raised # "" THEN walked.raised
                  ELSE IF schemas.raised # "" THEN schemas.raised
                  ELSE parameters.raised
    IN  [raised |-> raised,
         counts |->
            IF raised # "" THEN NoCounts
            ELSE [paths |-> IF "paths" \in Keys(spec_)
                            THEN PyLen(Get(spec_, "paths")) ELSE 0,
                  operations |-> walked.operations,
                  schemas |-> schemas.n,
                  parameters |-> parameters.n,
                  tags |-> Cardinality(walked.tags)]]

(* lines 160-162: spec.get('info', {}).get(...) raises AttributeError when  *)
(* info is not a dict                                                       *)
summary_raises(spec_) ==
    "info" \in Keys(spec_) /\ ~IsDict(Get(spec_, "info"))

----------------------------------------------------------------------------
(* json.dump(spec, f, indent=2, ensure_ascii=False): the text, as atoms.    *)
(* The strings of the documents need no escape.                             *)

RECURSIVE Indent(_)
Indent(level) == IF level = 0 THEN <<>> ELSE <<"  ">> \o Indent(level - 1)

RECURSIVE json_dumps(_, _)
RECURSIVE json_items(_, _, _)

json_items(node, i, level) ==
    IF i > Len(node.kv) THEN <<>>
    ELSE (IF i > 1 THEN <<",">> ELSE <<>>)
         \o <<"\n">> \o Indent(level)
         \o (IF IsDict(node) THEN <<"\"", node.kv[i].k, "\"", ": ">> ELSE <<>>)
         \o json_dumps(node.kv[i].v, level)
         \o json_items(node, i + 1, level)

json_dumps(node, level) ==
    CASE IsDict(node) ->
            IF node.kv = <<>> THEN <<"{}">>
            ELSE <<"{">> \o json_items(node, 1, level + 1)
                 \o <<"\n">> \o Indent(level) \o <<"}">>
      [] IsList(node) ->
            IF node.kv = <<>> THEN <<"[]">>
            ELSE <<"[">> \o json_items(node, 1, level + 1)
                 \o <<"\n">> \o Indent(level) \o <<"]">>
      [] IsStr(node) -> <<"\"">> \o node.s \o <<"\"">>
      [] OTHER -> node.s

(* validate_openapi.py lines 172-173: what main() writes *)
main_output(spec_) == json_dumps(spec_, 0)

(* generate_openapi_json.py lines 27-29: what the generator writes *)
generate_output(spec_) == json_dumps(spec_, 0) \o <<"\n">>

----------------------------------------------------------------------------
(* main() of validate_openapi.py, one action per stage *)

Terminal == {"Emitted", "Invalid", "Failed", "Crashed"}

(* documents that reach count_elements *)
Operation(tags) == Map(<<E("tags", tags)>>)
StatPaths ==
    {Map(<<E("/send", Map(<<E("get", Operation(List(<<Str(<<"Messages">>)>>))),
                            E("POST", Operation(List(<<Str(<<"Messages">>),
                                                       Str(<<"Media">>)>>))),
                            E("summary", Str(<<"Send">>))>>)),
           E("/chats", Map(<<E("Delete", Operation(List(<<Str(<<"Chats">>)>>)))>>))>>),
     Map(<<E("/send", Null)>>),
     Map(<<E("/send", Map(<<E("get", Operation(Null))>>))>>),
     Map(<<E("/send", Map(<<E("get", Operation(List(<<List(<<>>)>>)))>>))>>),
     Map(<<E("/send", Map(<<E("get", Str(<<"tags">>))>>))>>),
     List(<<>>),
     Str(<<"/send">>)}

StatDocs ==
    {Map(<<E("openapi", Str(V3)), E("info", FullInfo), E("paths", p)>> \o c) :
        p \in StatPaths,
        c \in {<<>>, <<E("components", Map(Schemas(<<"X", "Y">>)
                                           \o Parameters(<<"P">>)))>>}}

MainDocs == FieldDocs \cup StatDocs

Inputs ==
    {[state |-> st, doc |-> Null] : st \in {"missing", "malformed", "undecodable"}}
    \cup {[state |-> "ok", doc |-> d] : d \in MainDocs}

OldFiles == {NoFile, [exists |-> TRUE, text |-> <<"{}">>]}

CallerIdle ==
    /\ tpc = "idle"
    /\ doc = Null
    /\ edits = {}
    /\ result = NotRun
    /\ base_result = NotRun
    /\ refs_found = <<>>

RunInit(inputs, files) ==
    /\ pc = "Start"
    /\ yaml_file \in inputs
    /\ json_file \in files
    /\ json_before = json_file
    /\ json_io = "untouched"
    /\ spec = Null
    /\ errors = NotRun
    /\ counts = NoCounts
    /\ exit_code = -1
    /\ outcomes = {}
    /\ runs = 1

Init == RunInit(Inputs, OldFiles) /\ CallerIdle

(* the process ends in state p with exit status code *)
Ends(p, code) ==
    /\ pc' = p
    /\ exit_code' = code
    /\ outcomes' = outcomes \cup {<<p, code>>}

(* lines 131-143: open and yaml.safe_load.  yaml.YAMLError and              *)
(* FileNotFoundError are caught and exit 1; a file that is not UTF-8 raises *)
(* UnicodeDecodeError, which nothing catches (exit status 1)                *)
LoadYaml ==
    /\ pc = "Start"
    /\ CASE yaml_file.state = "ok" ->
              /\ spec' = yaml_file.doc
              /\ pc' = "Loaded"
              /\ UNCHANGED <<exit_code, outcomes>>
         [] yaml_file.state \in {"missing", "malformed"} ->
              /\ Ends("Failed", 1)
              /\ UNCHANGED spec
         [] OTHER ->
              /\ Ends("Crashed", 1)
              /\ UNCHANGED spec
    /\ UNCHANGED <<yaml_file, json_file, json_before, json_io, errors, counts, runs>>
    /\ UNCHANGED callVars

(* lines 145-155 as they would be without the sys.exit(1) of line 153 *)
ValidateStructure_NoExit ==
    /\ pc = "Loaded"
    /\ errors' = validate_openapi_structure(spec)
    /\ IF errors'.raised # ""
       THEN Ends("Crashed", 1)
       ELSE /\ pc' = "ReferencesChecked"
            /\ UNCHANGED <<exit_code, outcomes>>
    /\ UNCHANGED <<yaml_file, json_file, json_before, json_io, spec, counts, runs>>
    /\ UNCHANGED callVars

(* lines 145-155: validate; a non-empty report exits 1, an exception of    *)
(* validate_openapi_structure is caught by nothing (exit status 1)          *)
ValidateStructure ==
    /\ pc = "Loaded"
    /\ errors' = validate_openapi_structure(spec)
    /\ IF errors'.raised # ""
       THEN Ends("Crashed", 1)
       ELSE IF errors'.errors # <<>>
       THEN Ends("Invalid", 1)
       ELSE /\ pc' = "ReferencesChecked"
            /\ UNCHANGED <<exit_code, outcomes>>
    /\ UNCHANGED <<yaml_file, json_file, json_before, json_io, spec, counts, runs>>
    /\ UNCHANGED callVars

(* lines 157-167: count_elements and the summary *)
Analyze ==
    /\ pc = "ReferencesChecked"
    /\ LET c == count_elements(spec)
       IN  IF c.raised # "" \/ summary_raises(spec)
           THEN /\ Ends("Crashed", 1)
                /\ UNCHANGED counts
           ELSE /\ counts' = c.counts
                /\ pc' = "StatisticsComputed"
                /\ UNCHANGED <<exit_code, outcomes>>
    /\ UNCHANGED <<yaml_file, json_file, json_before, json_io, spec, errors, runs>>
    /\ UNCHANGED callVars

(* lines 169-186 as they would be if the IOError were swallowed *)
WriteJson_SwallowsIOError ==
    /\ pc = "StatisticsComputed"
    /\ \/ /\ json_file' = [exists |-> TRUE, text |-> main_output(spec)]
          /\ json_io' = "written"
       \/ UNCHANGED <<json_file, json_io>>
    /\ pc' = "Written"
    /\ UNCHANGED <<exit_code, outcomes>>
    /\ UNCHANGED <<yaml_file, json_before, spec, errors, counts, runs>>
    /\ UNCHANGED callVars

(* lines 169-186: open(json_file, "w") and json.dump.  The open can fail    *)
(* (the file stays as it was); the write can fail after the open truncated  *)
(* the file, leaving a proper prefix of the text; both are IOError, exit 1. *)
(* The stat() of the two files just read and written is taken to succeed.   *)
WriteJson ==
    /\ pc = "StatisticsComputed"
    /\ \/ /\ json_file' = [exists |-> TRUE, text |-> main_output(spec)]
          /\ json_io' = "written"
          /\ pc' = "Written"
          /\ UNCHANGED <<exit_code, outcomes>>
       \/ /\ UNCHANGED <<json_file, json_io>>
          /\ Ends("Failed", 1)
       \/ /\ \E n \in 0..(Len(main_output(spec)) - 1) :
                json_file' = [exists |-> TRUE,
                              text |-> SubSeq(main_output(spec), 1, n)]
          /\ json_io' = "opened"
          /\ Ends("Failed", 1)
    /\ UNCHANGED <<yaml_file, json_before, spec, errors, counts, runs>>
    /\ UNCHANGED callVars

(* lines 188-196: return 0 and sys.exit(main()) *)
Exit ==
    /\ pc = "Written"
    /\ Ends("Emitted", 0)
    /\ UNCHANGED <<yaml_file, json_file, json_before, json_io, spec, errors,
                   counts, runs>>
    /\ UNCHANGED callVars

Next == LoadYaml \/ ValidateStructure \/ Analyze \/ WriteJson \/ Exit

Spec == Init /\ [][Next]_vars

(* The script run again: lines 195-196 start main() afresh on whatever      *)
(* openapi.yaml then holds; openapi.json is what the last run left.         *)
RunInputs ==
    {[state |-> "missing", doc |-> Null],
     [state |-> "malformed", doc |-> Null],
     [state |-> "ok", doc |-> Map(<<>>)],
     [state |-> "ok", doc |-> Null],
     [state |-> "ok",
      doc |-> Map(<<E("openapi", Str(V3)), E("info", FullInfo),
                    E("paths", Map(<<>>))>>)]}

Rerun ==
    /\ pc \in Terminal
    /\ runs < MaxRuns
    /\ runs' = runs + 1
    /\ pc' = "Start"
    /\ yaml_file' \in RunInputs
    /\ json_before' = json_file
    /\ json_io' = "untouched"
    /\ spec' = Null
    /\ errors' = NotRun
    /\ counts' = NoCounts
    /\ exit_code' = -1
    /\ UNCHANGED <<json_file, outcomes>>
    /\ UNCHANGED callVars

InitRuns == RunInit(RunInputs, {NoFile}) /\ CallerIdle
NextRuns == Next \/ Rerun
SpecRuns == InitRuns /\ [][NextRuns]_vars

----------------------------------------------------------------------------
(* Claims about the pipeline *)

InputLoads == yaml_file.state = "ok"
ReportOfInput == validate_openapi_structure(yaml_file.doc)

(* C1: openapi.json is opened for writing only after the input was loaded   *)
(* and validate_openapi_structure returned an empty report; with a missing  *)
(* input, malformed YAML or a non-empty report the run halts and the file   *)
(* is neither created nor overwritten.                                      *)
C1_EmitOnlyAfterValidation ==
    /\ json_io # "untouched" =>
          /\ InputLoads
          /\ spec = yaml_file.doc
          /\ errors = Returned(<<>>)
          /\ ReportOfInput = Returned(<<>>)
    /\ json_io = "untouched" => json_file = json_before
    /\ (pc # "Start" /\ yaml_file.state \in {"missing", "malformed"}) =>
          pc = "Failed" /\ json_io = "untouched"
    /\ (pc \notin {"Start", "Loaded"} /\ InputLoads
        /\ ReportOfInput.errors # <<>>) =>
          pc = "Invalid" /\ json_io = "untouched"

(* an invalid document, an older openapi.json on disk, left as it was *)
C1_Witness ==
    /\ pc = "Invalid"
    /\ Len(errors.errors) >= 2
    /\ \E i \in 1..Len(errors.errors) : IsRefError(errors.errors[i])
    /\ json_before.exists
    /\ json_file = json_before

(* C2: the exit status is 0 exactly when the document was valid, its        *)
(* references resolved and the JSON written, and non-zero for a missing     *)
(* input, a YAML syntax error, a non-empty report and a failed write.       *)
C2_ExitCodeZeroIffEmitted ==
    /\ pc \notin Terminal => exit_code = -1
    /\ pc \in Terminal =>
          /\ exit_code = 0 <=>
                /\ InputLoads
                /\ ReportOfInput = Returned(<<>>)
                /\ json_io = "written"
                /\ json_file = [exists |-> TRUE, text |-> main_output(yaml_file.doc)]
          /\ yaml_file.state \in {"missing", "malformed"} => exit_code # 0
          /\ (InputLoads /\ ReportOfInput.errors # <<>>) => exit_code # 0
          /\ json_io # "written" => exit_code # 0

(* a run whose write failed after the file was opened *)
C2_Witness ==
    /\ pc = "Failed"
    /\ json_io = "opened"
    /\ exit_code = 1
    /\ errors = Returned(<<>>)

EmptyDocumentErrors ==
    <<MissingField("openapi"), MissingField("info"), MissingField("paths")>>

(* C7: for every document the loader can produce a run ends in Emitted,     *)
(* Invalid or Failed, never in an unhandled fault; the empty mapping ends   *)
(* in Invalid with the three errors for openapi, info and paths, a          *)
(* non-mapping root in Invalid with a structural error.                     *)
C7_NoUnhandledFault ==
    InputLoads =>
        /\ pc # "Crashed"
        /\ (pc \in Terminal /\ yaml_file.doc = Map(<<>>)) =>
              pc = "Invalid" /\ errors = Returned(EmptyDocumentErrors)
        /\ (pc \in Terminal /\ ~IsDict(yaml_file.doc)) =>
              pc = "Invalid" /\ errors.raised = "" /\ errors.errors # <<>>

(* C8: a Failed run (missing input, syntax error, write failure) and an     *)
(* Invalid run (non-empty report) never end with the same exit status.      *)
C8_FailedAndInvalidDiffer ==
    \A a \in outcomes : \A b \in outcomes :
        (a[1] = "Failed" /\ b[1] = "Invalid") => a[2] # b[2]

(* C9: in Emitted, openapi.json holds the JSON text of the document with    *)
(* 2-space indentation followed by exactly one newline, the text the        *)
(* generator script writes for the same document.                           *)
C9_OutputEndsWithNewline ==
    pc = "Emitted" =>
        /\ json_file.exists
        /\ json_file.text = json_dumps(spec, 0) \o <<"\n">>
        /\ json_file.text = generate_output(spec)

====
